---- MODULE Spec2Model ----
(***************************************************************************)
(* Parallel test-plan execution engine: worktree pool, request queue and   *)
(* execution workers.                                                      *)
(*                                                                         *)
(* The pool (worktree_pool.py) and the worker (execution_worker.py) are    *)
(* translated from their source.  The request queue (services/test_queue)  *)
(* and the orchestrator (services/parallel_orchestrator) are not part of   *)
(* the source tree; their operations follow section 4.2 / 4.4 of the       *)
(* specification and the calls made by the worker and by the tests.        *)
(*                                                                         *)
(* Tasks are asyncio coroutines: a step of the model is the code that runs *)
(* between two suspension points of one task.                              *)
(***************************************************************************)
EXTENDS Integers, Sequences, FiniteSets, TLC

\* ---------------------------------------------------------------- bounds
MaxPool == 1
MaxWorkers == 2
MaxRequests == 2
MaxRetries == 1
MaxQueueSize == 2
\* most worktrees of the runs with a degraded pool
MaxPoolDegraded == 2
\* workers of the runs on the order of the waiters of acquire; these runs
\* have one request more than workers
MaxAcquirers == 3

Worktrees == 1..MaxPoolDegraded
Workers == 1..(IF MaxAcquirers > MaxWorkers THEN MaxAcquirers ELSE MaxWorkers)
Requests == 1..(IF MaxAcquirers + 1 > MaxRequests THEN MaxAcquirers + 1 ELSE MaxRequests)

\* None (Python) for worktree ids, request ids and task ids
None == 0

\* the lease of a worker whose WorktreeInfo is no longer the object of the
\* table (cleanup() has cleared self.worktrees since the acquire)
Stale == -1

VARIABLES
    pool_size,      \* WorktreePool.pool_size
    initialized,    \* WorktreePool._initialized
    wtStatus,       \* WorktreeInfo.status of wt-i; "absent" = not in self.worktrees
    wtTest,         \* WorktreeInfo.current_test of wt-i (plan file that runs there)
    lockOwner,      \* task holding WorktreePool._lock, None when unlocked
    lockWaiters,    \* FIFO of tasks blocked in WorktreePool._lock.acquire()
    max_size,       \* TestQueue max_size (the bound of pending)
    pending,        \* TestQueue.pending (FIFO of request ids)
    running,        \* TestQueue.running (set of request ids)
    completed,      \* TestQueue.completed (ids of the requests with a COMPLETE result)
    failed,         \* TestQueue.failed (ids of the requests with a FAILED result)
    retry_count,    \* TestRequest.retry_count
    max_retries,    \* TestRequest.max_retries, the same for every request of a run
    submitted,      \* number of requests handed to enqueue so far
    num_workers,    \* number of ExecutionWorker objects
    wRunning,       \* ExecutionWorker.running
    pc,             \* position of each worker task
    cur,            \* test_request of the current iteration
    held,           \* worktree local of the current iteration
    waitPc,         \* position of the wait_for_completion caller
    attempts,       \* history: iterations of _process_next_test started for each request
    notified,       \* the waiter of wait_until_empty has been notified and not yet run
    orchState,      \* lifecycle state of the ParallelTestOrchestrator
    rejected        \* number of submit calls that failed with QueueClosed

poolVars == <<pool_size, initialized, wtStatus, wtTest, lockOwner, lockWaiters>>
queueVars == <<max_size, pending, running, completed, failed, retry_count,
               max_retries, submitted>>
workerVars == <<num_workers, wRunning, pc, cur, held>>
orchVars == <<waitPc, notified>>
lifeVars == <<orchState, rejected>>
vars == <<poolVars, queueVars, workerVars, orchVars, attempts, lifeVars>>

InitState ==
    /\ initialized = FALSE
    /\ wtStatus = [i \in Worktrees |-> "absent"]
    /\ wtTest = [i \in Worktrees |-> None]
    /\ lockOwner = None
    /\ lockWaiters = <<>>
    /\ pending = <<>>
    /\ running = {}
    /\ completed = {}
    /\ failed = {}
    /\ retry_count = [r \in Requests |-> 0]
    /\ submitted = 0
    /\ wRunning = [w \in Workers |-> FALSE]
    /\ pc = [w \in Workers |-> "idle"]
    /\ cur = [w \in Workers |-> None]
    /\ held = [w \in Workers |-> None]
    /\ waitPc = "none"
    /\ notified = FALSE
    /\ attempts = [r \in Requests |-> 0]
    /\ orchState = "CREATED"
    /\ rejected = 0

InitCommon ==
    /\ InitState
    /\ max_size \in 1..MaxQueueSize
    /\ max_retries = MaxRetries
    /\ num_workers \in 1..MaxWorkers

Init ==
    /\ pool_size \in 1..MaxPool
    /\ InitCommon

\* ------------------------------------------------------------------ pool
\* asyncio.Lock on WorktreePool._lock: acquire() returns at once when the
\* lock is free and nobody waits for it
LockFree == lockOwner = None /\ lockWaiters = <<>>

\* asyncio.Lock.acquire when it returns at once
LockTake(t) ==
    /\ lockOwner' = t
    /\ UNCHANGED lockWaiters

\* asyncio.Lock.acquire otherwise: the task joins the FIFO of waiters
LockWait(t) ==
    /\ lockWaiters' = Append(lockWaiters, t)
    /\ UNCHANGED lockOwner

\* a cancellation that leaves the lock and its FIFO as they are
LockCancelKept(t) == UNCHANGED <<lockOwner, lockWaiters>>

\* a lock that a cancelled owner hands to the newest waiter
LockCancelToNewest(t) ==
    IF lockOwner = t
    THEN IF lockWaiters = <<>>
         THEN /\ lockOwner' = None
              /\ UNCHANGED lockWaiters
         ELSE /\ lockOwner' = lockWaiters[Len(lockWaiters)]
              /\ lockWaiters' = SubSeq(lockWaiters, 1, Len(lockWaiters) - 1)
    ELSE /\ lockWaiters' = SelectSeq(lockWaiters, LAMBDA x : x # t)
         /\ UNCHANGED lockOwner

\* asyncio.Lock.acquire cancelled: a waiting task leaves the FIFO; a task that
\* has the lock (in "async with", or just handed the lock) gives it back
LockCancel(t) ==
    IF lockOwner = t
    THEN IF lockWaiters = <<>>
         THEN /\ lockOwner' = None
              /\ UNCHANGED lockWaiters
         ELSE /\ lockOwner' = Head(lockWaiters)
              /\ lockWaiters' = Tail(lockWaiters)
    ELSE /\ lockWaiters' = SelectSeq(lockWaiters, LAMBDA x : x # t)
         /\ UNCHANGED lockOwner

\* asyncio.Lock.release: the first waiter, if any, gets the lock
LockRelease ==
    IF lockWaiters = <<>>
    THEN /\ lockOwner' = None
         /\ UNCHANGED lockWaiters
    ELSE /\ lockOwner' = Head(lockWaiters)
         /\ lockWaiters' = Tail(lockWaiters)

\* a scan that takes ERROR worktrees as well
FreeOrErrorWorktrees == {i \in Worktrees : wtStatus[i] \in {"free", "error"}}

\* a scan that does not tell BUSY from FREE
FreeWorktreesAnyStatus == {i \in Worktrees : wtStatus[i] \in {"free", "busy"}}

\* the scan of acquire: worktrees in table order whose status is FREE
FreeWorktrees == {i \in Worktrees : wtStatus[i] = "free"}

\* variant of the scan of acquire that also takes a worktree in ERROR
FirstUsable ==
    CHOOSE i \in {k \in Worktrees : wtStatus[k] \in {"free", "error"}} :
        \A j \in {k \in Worktrees : wtStatus[k] \in {"free", "error"}} : i <= j

\* the worktree the scan returns: the first FREE one in table order
FirstFree == CHOOSE i \in FreeWorktrees : \A j \in FreeWorktrees : i <= j

\* variant of initialize that reports success one worktree early
InitializeShort ==
    /\ ~initialized
    /\ \E k \in 0..pool_size :
          /\ wtStatus' = [i \in Worktrees |-> IF i <= k THEN "free" ELSE wtStatus[i]]
          /\ wtTest' = [i \in Worktrees |-> IF i <= k THEN None ELSE wtTest[i]]
          /\ initialized' = (k >= pool_size - 1)
    /\ UNCHANGED <<pool_size, lockOwner, lockWaiters, queueVars, workerVars, orchVars>>
    /\ UNCHANGED <<attempts, lifeVars>>

\* variant of initialize that sets _initialized before the creation loop
PoolInitializeFlagFirst ==
    /\ ~initialized
    /\ \E k \in 0..pool_size :
          /\ wtStatus' = [i \in Worktrees |-> IF i <= k THEN "free" ELSE wtStatus[i]]
          /\ wtTest' = [i \in Worktrees |-> IF i <= k THEN None ELSE wtTest[i]]
          /\ initialized' = TRUE
    /\ UNCHANGED <<pool_size, lockOwner, lockWaiters, queueVars, workerVars, orchVars>>

\* WorktreePool.initialize: creates wt-1 .. wt-pool_size in order; creation k+1
\* may fail, which leaves wt-1 .. wt-k in the table and the pool uninitialized
PoolInitialize ==
    /\ ~initialized
    /\ \E k \in 0..pool_size :
          /\ wtStatus' = [i \in Worktrees |-> IF i <= k THEN "free" ELSE wtStatus[i]]
          /\ wtTest' = [i \in Worktrees |-> IF i <= k THEN None ELSE wtTest[i]]
          /\ initialized' = (k = pool_size)
    /\ UNCHANGED <<pool_size, lockOwner, lockWaiters, queueVars, workerVars, orchVars>>

\* initialize called on the pool by its client
Initialize ==
    /\ PoolInitialize
    /\ UNCHANGED <<attempts, lifeVars>>

\* stop() has been called on worker w
Stopped(w) == pc[w] # "idle" /\ ~wRunning[w]

\* ----------------------------------------------------------------- queue
\* TestQueue.enqueue: put at the tail of pending; blocks while pending is full
QueueHasRoom == Len(pending) < max_size

\* an enqueue that puts the request at the head of pending
QEnqueueAtHead(r) == pending' = <<r>> \o pending

QEnqueue(r) == pending' = Append(pending, r)

\* a dequeue that returns the newest request
QDequeueNewest == pending[Len(pending)]

\* TestQueue.dequeue: head of pending
QDequeueValue == Head(pending)

QDequeueRest == Tail(pending)

\* TestQueue.mark_running
QMarkRunning(r) == running' = running \cup {r}

\* a mark_complete that records the result and leaves the request in running
QMarkCompleteKeepsRunning(r) ==
    /\ running' = running
    /\ completed' = completed \cup {r}

\* TestQueue.mark_complete: out of running, into completed
QMarkComplete(r) ==
    /\ running' = running \ {r}
    /\ completed' = completed \cup {r}

\* TestQueue.mark_failed: out of running, into failed
QMarkFailed(r) ==
    /\ running' = running \ {r}
    /\ failed' = failed \cup {r}

\* a retry test that is off by one
QCanRetryOneMore(r) == retry_count[r] <= max_retries

\* TestQueue.requeue_for_retry: the test of its return value
QCanRetry(r) == retry_count[r] + 1 <= max_retries

\* TestQueue.get_status: the drain predicate of wait_until_empty
QIsEmpty == pending = <<>> /\ running = {}

\* a queue whose mutations never notify the condition
QNotifyNever == notified' = FALSE

\* notify_all on the condition of the queue: wakes the waiter of
\* wait_until_empty, if there is one
QNotify == notified' = (waitPc = "waiting")

\* the client task (orchestrator submit / test) calls enqueue for each of its
\* requests before it calls wait_for_completion; requests get their ids in
\* submission order
EnqueueUpTo(n) ==
    /\ submitted < n
    /\ waitPc = "none"
    /\ \A w \in Workers : ~Stopped(w)
    /\ QueueHasRoom
    /\ QEnqueue(submitted + 1)
    /\ submitted' = submitted + 1
    /\ UNCHANGED <<max_size, running, completed, failed, retry_count, max_retries>>
    /\ UNCHANGED <<poolVars, workerVars, waitPc>>
    /\ QNotify

\* the runs of at most MaxRequests requests
Enqueue == EnqueueUpTo(MaxRequests)

\* enqueue called on the queue by its client
Submit ==
    /\ Enqueue
    /\ UNCHANGED <<attempts, lifeVars>>

\* ---------------------------------------------------------------- worker
\* the workers are started together (the start loop of the orchestrator has
\* no suspension point): ExecutionWorker.start sets running and creates the
\* task of run() for each of the num_workers workers
StartWorkers ==
    /\ \A w \in Workers : ~wRunning[w] /\ pc[w] = "idle"
    /\ wRunning' = [w \in Workers |-> w <= num_workers]
    /\ pc' = [w \in Workers |-> IF w <= num_workers THEN "dequeue" ELSE pc[w]]
    /\ UNCHANGED <<num_workers, cur, held>>
    /\ UNCHANGED <<poolVars, queueVars, orchVars>>

\* the workers started by their client
Start ==
    /\ StartWorkers
    /\ UNCHANGED <<attempts, lifeVars>>

\* _process_next_test step 1: wait_for(queue.dequeue(), 1.0); the timeout
\* branch returns to the loop without a state change
Dequeue(w) ==
    /\ pc[w] = "dequeue"
    /\ wRunning[w]
    /\ pending # <<>>
    /\ cur' = [cur EXCEPT ![w] = QDequeueValue]
    /\ pending' = QDequeueRest
    /\ pc' = [pc EXCEPT ![w] = "mark_running"]
    /\ UNCHANGED <<num_workers, wRunning, held>>
    /\ UNCHANGED <<max_size, running, completed, failed, retry_count, max_retries, submitted>>
    /\ UNCHANGED <<poolVars, orchVars>>
    /\ UNCHANGED <<attempts, lifeVars>>

\* TestRequest.plan_file of request r, the test_name the worker passes to
\* acquire; plan files are names of their own, none of them a request id
PlanFile(r) == 100 + r

\* WorktreePool.acquire, the body of "if info.status == FREE": mark the first
\* FREE worktree BUSY, tag it and return it to the worker
TakeWorktree(w) ==
    /\ wtStatus' = [wtStatus EXCEPT ![FirstFree] = "busy"]
    /\ wtTest' = [wtTest EXCEPT ![FirstFree] = PlanFile(cur[w])]
    /\ held' = [held EXCEPT ![w] = FirstFree]
    /\ pc' = [pc EXCEPT ![w] = "execute"]

\* WorktreePool.acquire from "async with self._lock" on: the task waits when
\* the lock is taken; else the first pass of the scan runs at once, which
\* returns a FREE worktree (lock taken and given back in the same step) or
\* goes to sleep holding the lock
AcquireEnter(w) ==
    /\ IF ~LockFree
       THEN /\ LockWait(w)
            /\ pc' = [pc EXCEPT ![w] = "acq_scan"]
            /\ UNCHANGED <<wtStatus, wtTest, held>>
       ELSE IF FreeWorktrees # {}
       THEN /\ TakeWorktree(w)
            /\ UNCHANGED <<lockOwner, lockWaiters>>
       ELSE /\ LockTake(w)
            /\ pc' = [pc EXCEPT ![w] = "acq_sleep"]
            /\ UNCHANGED <<wtStatus, wtTest, held>>
    /\ UNCHANGED <<pool_size, initialized, cur>>

\* WorktreePool.acquire, one pass of "while True" with the lock held (after
\* the wait for the lock or after a sleep): take the first FREE worktree and
\* return, or go to sleep still holding the lock
AcquireScan(w) ==
    /\ IF FreeWorktrees # {}
       THEN /\ TakeWorktree(w)
            /\ LockRelease
       ELSE /\ pc' = [pc EXCEPT ![w] = "acq_sleep"]
            /\ UNCHANGED <<wtStatus, wtTest, held, lockOwner, lockWaiters>>
    /\ UNCHANGED cur

\* WorktreePool.acquire: asyncio.sleep(1) is over, next pass of the loop
AcquireWake(w) ==
    /\ pc[w] = "acq_sleep"
    /\ pc' = [pc EXCEPT ![w] = "acq_scan"]
    /\ UNCHANGED <<num_workers, wRunning, cur, held>>
    /\ UNCHANGED <<poolVars, queueVars, orchVars>>
    /\ UNCHANGED <<attempts, lifeVars>>

\* run(), "while self.running": where the task goes when an iteration is
\* over (or when a CancelledError leaves it): the next dequeue, or the exit
\* of the loop once stop() has cleared the flag
LoopTop(w) == IF wRunning'[w] THEN "dequeue" ELSE "done"

\* variant of release that puts an unknown worktree back into the table,
\* in ERROR
CleanAndAddEntry(w) ==
    /\ IF held[w] = Stale
       THEN /\ wtStatus' = [wtStatus EXCEPT ![1] = "error"]
            /\ UNCHANGED wtTest
       ELSE \E ok \in BOOLEAN :
               IF ok
               THEN /\ wtStatus' = [wtStatus EXCEPT ![held[w]] = "free"]
                    /\ wtTest' = [wtTest EXCEPT ![held[w]] = None]
               ELSE /\ wtStatus' = [wtStatus EXCEPT ![held[w]] = "error"]
                    /\ UNCHANGED wtTest
    /\ pc' = [pc EXCEPT ![w] = LoopTop(w)]
    /\ held' = [held EXCEPT ![w] = None]
    /\ cur' = [cur EXCEPT ![w] = None]

\* variant of release in which a failing cleaning leaves the worktree BUSY
CleanAndKeepBusy(w) ==
    /\ IF held[w] = Stale
       THEN UNCHANGED <<wtStatus, wtTest>>
       ELSE \E ok \in BOOLEAN :
               IF ok
               THEN /\ wtStatus' = [wtStatus EXCEPT ![held[w]] = "free"]
                    /\ wtTest' = [wtTest EXCEPT ![held[w]] = None]
               ELSE UNCHANGED <<wtStatus, wtTest>>
    /\ pc' = [pc EXCEPT ![w] = LoopTop(w)]
    /\ held' = [held EXCEPT ![w] = None]
    /\ cur' = [cur EXCEPT ![w] = None]

\* WorktreePool.release with the lock held: an unknown id returns, and a
\* WorktreeInfo that cleanup() has dropped from the table is cleaned and
\* marked without any effect on the table; else _cleanup_worktree runs
\* (blocking commands, no suspension point) and the
\* worktree becomes FREE (tag cleared), or ERROR when a cleaning command
\* fails (the worker logs the error); the iteration of the worker is over
CleanAndFree(w) ==
    /\ IF held[w] = Stale
       THEN UNCHANGED <<wtStatus, wtTest>>
       ELSE \E ok \in BOOLEAN :
               IF ok
               THEN /\ wtStatus' = [wtStatus EXCEPT ![held[w]] = "free"]
                    /\ wtTest' = [wtTest EXCEPT ![held[w]] = None]
               ELSE /\ wtStatus' = [wtStatus EXCEPT ![held[w]] = "error"]
                    /\ UNCHANGED wtTest
    /\ pc' = [pc EXCEPT ![w] = LoopTop(w)]
    /\ held' = [held EXCEPT ![w] = None]
    /\ cur' = [cur EXCEPT ![w] = None]

\* a "finally" block that calls release without the test of "if worktree"
ReleaseEnterUnchecked(w) ==
    /\ IF ~LockFree
       THEN /\ LockWait(w)
            /\ pc' = [pc EXCEPT ![w] = "release"]
            /\ UNCHANGED <<cur, wtStatus, wtTest, held>>
       ELSE IF held[w] = None
       THEN /\ pc' = [pc EXCEPT ![w] = LoopTop(w)]
            /\ cur' = [cur EXCEPT ![w] = None]
            /\ UNCHANGED <<lockOwner, lockWaiters, wtStatus, wtTest, held>>
       ELSE /\ CleanAndFree(w)
            /\ UNCHANGED <<lockOwner, lockWaiters>>
    /\ UNCHANGED <<pool_size, initialized>>

\* step 6, "finally: if worktree: await self.pool.release(worktree)":
\* without a worktree the iteration is over; else WorktreePool.release,
\* "async with self._lock": the task waits when the lock is taken, else the
\* cleaning runs at once
ReleaseEnter(w) ==
    /\ IF held[w] = None
       THEN /\ pc' = [pc EXCEPT ![w] = LoopTop(w)]
            /\ cur' = [cur EXCEPT ![w] = None]
            /\ UNCHANGED <<lockOwner, lockWaiters, wtStatus, wtTest, held>>
       ELSE IF ~LockFree
       THEN /\ LockWait(w)
            /\ pc' = [pc EXCEPT ![w] = "release"]
            /\ UNCHANGED <<cur, wtStatus, wtTest, held>>
       ELSE /\ CleanAndFree(w)
            /\ UNCHANGED <<lockOwner, lockWaiters>>
    /\ UNCHANGED <<pool_size, initialized>>

\* WorktreePool.release once the wait for the lock is over
ReleaseClean(w) ==
    /\ CleanAndFree(w)
    /\ LockRelease

\* "async with self._lock": the task that has the lock after its wait (or
\* after its sleep, in acquire) goes on with the body of acquire or release
WithLock(w) ==
    /\ lockOwner = w
    /\ UNCHANGED <<num_workers, wRunning>>
    /\ pc[w] \in {"acq_scan", "release"}
    /\ IF pc[w] = "acq_scan" THEN AcquireScan(w) ELSE ReleaseClean(w)
    /\ UNCHANGED <<pool_size, initialized>>
    /\ UNCHANGED <<queueVars, orchVars>>
    /\ UNCHANGED <<attempts, lifeVars>>

\* a re-enqueue at the head of pending
QRequeueAtHead(r) ==
    /\ retry_count' = [retry_count EXCEPT ![r] = @ + 1]
    /\ running' = running \ {r}
    /\ pending' = IF QueueHasRoom THEN <<r>> \o pending ELSE pending

\* TestQueue.requeue_for_retry when it returns True: count the retry, leave
\* running, put at the tail of pending (the put waits while pending is full)
QRequeue(r) ==
    /\ retry_count' = [retry_count EXCEPT ![r] = @ + 1]
    /\ running' = running \ {r}
    /\ pending' = IF QueueHasRoom THEN Append(pending, r) ELSE pending

\* requeue_for_retry waits in its put: a retry is left and pending is full
PutWaits(r) == QCanRetry(r) /\ ~QueueHasRoom

\* a retry path that calls mark_failed whatever requeue_for_retry returned
RetryAndFail(w) ==
    IF QCanRetry(cur[w])
    THEN /\ QRequeue(cur[w])
         /\ failed' = failed \cup {cur[w]}
         /\ UNCHANGED completed
    ELSE /\ QMarkFailed(cur[w])
         /\ UNCHANGED <<pending, completed, retry_count>>

\* the retry path shared by "elif result.status == FAILED" and "except
\* Exception": requeue_for_retry, and mark_failed when it returned False
RetryOrFail(w) ==
    IF QCanRetry(cur[w])
    THEN /\ QRequeue(cur[w])
         /\ UNCHANGED <<completed, failed>>
    ELSE /\ QMarkFailed(cur[w])
         /\ UNCHANGED <<pending, completed, retry_count>>

\* an iteration that ends after the retry path without its "finally" block
AfterRetryNoRelease(w) ==
    IF PutWaits(cur[w])
    THEN /\ pc' = [pc EXCEPT ![w] = "requeue_put"]
         /\ UNCHANGED <<poolVars, cur, held>>
    ELSE /\ pc' = [pc EXCEPT ![w] = LoopTop(w)]
         /\ cur' = [cur EXCEPT ![w] = None]
         /\ UNCHANGED <<poolVars, held>>

\* the "finally" block after the retry path, unless requeue_for_retry waits
\* for room in pending
AfterRetry(w) ==
    IF PutWaits(cur[w])
    THEN /\ pc' = [pc EXCEPT ![w] = "requeue_put"]
         /\ UNCHANGED <<poolVars, cur, held>>
    ELSE ReleaseEnter(w)

\* variant of acquire without the test of _initialized
NotInitializedIgnored == FALSE

\* WorktreePool.acquire, "if not self._initialized: raise Exception(...)"
NotInitialized == ~initialized

\* variant in which the error of acquire is not caught: it leaves run() and
\* ends the task, the request staying in running
MarkRunningUncaught(w) ==
    /\ pc[w] = "mark_running"
    /\ UNCHANGED <<num_workers, wRunning>>
    /\ IF NotInitialized
       THEN /\ QMarkRunning(cur[w])
            /\ pc' = [pc EXCEPT ![w] = "done"]
            /\ cur' = [cur EXCEPT ![w] = None]
            /\ UNCHANGED <<poolVars, held>>
            /\ UNCHANGED <<pending, completed, failed, retry_count>>
       ELSE /\ QMarkRunning(cur[w])
            /\ AcquireEnter(w)
            /\ UNCHANGED <<pending, completed, failed, retry_count>>
    /\ UNCHANGED <<max_size, max_retries, submitted>>
    /\ UNCHANGED waitPc
    /\ QNotify
    /\ attempts' = [attempts EXCEPT ![cur[w]] = @ + 1]
    /\ UNCHANGED lifeVars

\* steps 2 and 3: queue.mark_running(test_request), then pool.acquire.  On an
\* uninitialized pool acquire raises at once ("Worktree pool not
\* initialized"): "except Exception" makes a FAILED result "Worker error: ..."
\* and takes the retry path, which removes from running the request that
\* mark_running has just added to it
MarkRunning(w) ==
    /\ pc[w] = "mark_running"
    /\ UNCHANGED <<num_workers, wRunning>>
    /\ IF NotInitialized
       THEN /\ RetryOrFail(w)
            /\ AfterRetry(w)
       ELSE /\ QMarkRunning(cur[w])
            /\ AcquireEnter(w)
            /\ UNCHANGED <<pending, completed, failed, retry_count>>
    /\ UNCHANGED <<max_size, max_retries, submitted>>
    /\ UNCHANGED waitPc
    /\ QNotify
    /\ attempts' = [attempts EXCEPT ![cur[w]] = @ + 1]
    /\ UNCHANGED lifeVars

\* a worker that never retries: a FAILED result goes to failed at once
ExecuteNoRetry(w) ==
    /\ pc[w] = "execute"
    /\ UNCHANGED <<num_workers, wRunning>>
    /\ \E st \in {"COMPLETE", "FAILED"} :
          /\ IF st = "COMPLETE" THEN QMarkComplete(cur[w]) /\ UNCHANGED failed
                                ELSE QMarkFailed(cur[w]) /\ UNCHANGED completed
          /\ UNCHANGED <<pending, retry_count>>
          /\ ReleaseEnter(w)
    /\ UNCHANGED <<max_size, max_retries, submitted>>
    /\ UNCHANGED waitPc
    /\ QNotify
    /\ UNCHANGED <<attempts, lifeVars>>

\* steps 4 to 6: _execute_test returns a result whose status is COMPLETE or
\* FAILED; mark_complete on COMPLETE, the retry path on FAILED; then the
\* "finally" block
Execute(w) ==
    /\ pc[w] = "execute"
    /\ UNCHANGED <<num_workers, wRunning>>
    /\ \E st \in {"COMPLETE", "FAILED"} :
          IF st = "COMPLETE"
          THEN /\ QMarkComplete(cur[w])
               /\ UNCHANGED <<pending, failed, retry_count>>
               /\ ReleaseEnter(w)
          ELSE /\ RetryOrFail(w)
               /\ AfterRetry(w)
    /\ UNCHANGED <<max_size, max_retries, submitted>>
    /\ UNCHANGED waitPc
    /\ QNotify
    /\ UNCHANGED <<attempts, lifeVars>>

\* requeue_for_retry waiting in pending.put: room has been made, the request
\* goes to the tail of pending; then the "finally" block
RequeuePut(w) ==
    /\ pc[w] = "requeue_put"
    /\ UNCHANGED <<num_workers, wRunning>>
    /\ QueueHasRoom
    /\ QEnqueue(cur[w])
    /\ ReleaseEnter(w)
    /\ UNCHANGED <<max_size, running, completed, failed, retry_count, max_retries, submitted>>
    /\ UNCHANGED waitPc
    /\ QNotify
    /\ UNCHANGED <<attempts, lifeVars>>

\* a call of stop() has not returned yet: it awaits the task of the worker
StopInProgress == \E w \in Workers : Stopped(w) /\ pc[w] # "done"

\* ExecutionWorker.stop: running = False, then the task is cancelled and
\* awaited.  The CancelledError is raised where the task is
\* suspended and is not caught by "except Exception":
\*  - in the dequeue wait: the task exits;
\*  - when dequeue has just returned a request: wait_for returns the result
\*    in place of the cancellation, the iteration goes on and the loop exits
\*    at its end;
\*  - in acquire (lock wait or sleep): the lock is given back, the task
\*    exits and the request stays in running;
\*  - in _execute_test or in the put of requeue_for_retry: "finally"
\*    releases the worktree, then the task exits;
\*  - in the lock wait of release: the release is abandoned, the worktree
\*    stays BUSY and the task exits.
StopWorker(w) ==
    /\ wRunning[w]
    /\ wRunning' = [wRunning EXCEPT ![w] = FALSE]
    /\ IF pc[w] = "dequeue"
       THEN /\ pc' = [pc EXCEPT ![w] = "done"]
            /\ UNCHANGED <<poolVars, cur, held>>
       ELSE IF pc[w] = "mark_running"
       THEN UNCHANGED <<poolVars, pc, cur, held>>
       ELSE IF pc[w] \in {"acq_scan", "acq_sleep", "release"}
       THEN /\ LockCancel(w)
            /\ pc' = [pc EXCEPT ![w] = "done"]
            /\ cur' = [cur EXCEPT ![w] = None]
            /\ held' = [held EXCEPT ![w] = None]
            /\ UNCHANGED <<pool_size, initialized, wtStatus, wtTest>>
       ELSE ReleaseEnter(w)
    /\ UNCHANGED num_workers
    /\ UNCHANGED <<queueVars, orchVars>>

\* stop() called on the workers by the client task, one call at a time and
\* in the order of the workers, not from inside wait_for_completion
Stop(w) ==
    /\ waitPc = "none"
    /\ ~StopInProgress
    /\ \A v \in 1..(w - 1) : Stopped(v)
    /\ StopWorker(w)
    /\ UNCHANGED <<attempts, lifeVars>>

\* ---------------------------------------------------------- orchestrator
\* the client task calls wait_for_completion: wait_until_empty tests the
\* drain predicate and returns at once when it holds, else waits on the
\* condition
WaitCall ==
    /\ waitPc = "none"
    /\ \A w \in Workers : ~Stopped(w)
    /\ waitPc' = IF QIsEmpty THEN "returned" ELSE "waiting"
    /\ notified' = FALSE
    /\ UNCHANGED <<poolVars, queueVars, workerVars>>
    /\ UNCHANGED <<attempts, lifeVars>>

\* the results the report of wait_for_completion is built from
ReportIds == completed \cup failed

\* the aggregate status of the report: COMPLETE when no result is FAILED,
\* FAILED when no result is COMPLETE, PARTIAL_SUCCESS otherwise
ReportStatus ==
    IF failed = {} THEN "COMPLETE"
    ELSE IF completed = {} THEN "FAILED"
    ELSE "PARTIAL_SUCCESS"

\* the notified waiter runs: it tests the drain predicate again and
\* wait_for_completion returns its report, or it waits for the next notify
WaitWake ==
    /\ waitPc = "waiting"
    /\ notified
    /\ waitPc' = IF QIsEmpty THEN "returned" ELSE "waiting"
    /\ notified' = FALSE
    /\ UNCHANGED <<poolVars, queueVars, workerVars>>
    /\ UNCHANGED <<attempts, lifeVars>>

\* --------------------------------------------------------- specification
WorkerStep(w) ==
    \/ Dequeue(w)
    \/ MarkRunning(w)
    \/ AcquireWake(w)
    \/ WithLock(w)
    \/ Execute(w)
    \/ RequeuePut(w)

Next ==
    \/ Initialize
    \/ Start
    \/ Submit
    \/ WaitCall
    \/ WaitWake
    \/ \E w \in Workers : WorkerStep(w)

Spec == Init /\ [][Next]_vars

\* every task of the event loop that can run is eventually run
Fairness ==
    /\ WF_vars(Initialize)
    /\ WF_vars(Start)
    /\ WF_vars(Submit)
    /\ WF_vars(WaitWake)
    /\ \A w \in Workers : WF_vars(WorkerStep(w))

FairSpec == Spec /\ Fairness

\* WorktreePool.cleanup, called by a client at any moment: the directories
\* are removed (blocking commands, no suspension point, no lock), the table
\* is cleared and the pool is no longer initialized.  A task in acquire or
\* in release goes on with the empty table.
PoolCleanup ==
    /\ initialized \/ \E i \in Worktrees : wtStatus[i] # "absent"
    /\ wtStatus' = [i \in Worktrees |-> "absent"]
    /\ wtTest' = [i \in Worktrees |-> None]
    /\ initialized' = FALSE
    /\ held' = [w \in Workers |-> IF held[w] = None THEN None ELSE Stale]
    /\ UNCHANGED <<pool_size, lockOwner, lockWaiters>>
    /\ UNCHANGED <<num_workers, wRunning, pc, cur>>
    /\ UNCHANGED <<queueVars, orchVars>>

\* cleanup called on the pool by a client at any moment
Cleanup ==
    /\ PoolCleanup
    /\ UNCHANGED <<attempts, lifeVars>>

\* the same system with a client that removes the pool while it is in use
NextCleanup ==
    \/ Next
    \/ Cleanup

\* pools of one and two worktrees and at most two workers are enough to
\* call acquire and release on the removed pool, alone and behind one another
InitCleanup ==
    /\ pool_size \in 1..2
    /\ InitCommon
    /\ num_workers <= 2

CleanupSpec == InitCleanup /\ [][NextCleanup]_vars

\* the same system with a pool of two worktrees or more, of which one can be
\* lost to a failing release while the others stay in service
InitDegraded ==
    /\ pool_size \in 2..MaxPoolDegraded
    /\ InitCommon
    /\ num_workers <= 2

DegradedSpec == InitDegraded /\ [][Next]_vars /\ Fairness

\* the same system with a client that shuts the workers down: stop() is
\* called on them one after the other, at any moment outside
\* wait_for_completion
NextStop ==
    \/ Next
    \/ \E w \in Workers : Stop(w)

\* one worktree and at most two workers: a stopped worker alone, and a
\* stopped worker next to one that waits in acquire
InitStop == Init /\ pool_size = 1 /\ num_workers <= 2

StopSpec == InitStop /\ [][NextStop]_vars

\* no fairness on Stop: the client may never shut down
FairStopSpec == StopSpec /\ Fairness

\* the drain of the queue seen by one waiter: one worktree, at most two
\* workers, every task scheduled fairly
DrainSpec == InitStop /\ [][Next]_vars /\ Fairness

\* a submission for each of MaxAcquirers workers, and one more
SubmitEach ==
    /\ EnqueueUpTo(MaxAcquirers + 1)
    /\ UNCHANGED <<attempts, lifeVars>>

\* MaxAcquirers workers on a pool of one worktree: one holds the worktree,
\* the others wait in acquire one behind the other; stop() may cancel them.
\* The requests have no retry, so that requeue_for_retry never puts.
NextFifo ==
    \/ Initialize
    \/ Start
    \/ SubmitEach
    \/ \E w \in Workers :
          \/ Dequeue(w)
          \/ MarkRunning(w)
          \/ AcquireWake(w)
          \/ WithLock(w)
          \/ Execute(w)
    \/ \E w \in Workers : Stop(w)

InitFifo ==
    /\ pool_size = 1
    /\ InitState
    /\ max_size = MaxAcquirers + 1
    /\ max_retries = 0
    /\ num_workers = MaxAcquirers

FifoSpec == InitFifo /\ [][NextFifo]_vars

\* ------------------------------------------------ orchestrator lifecycle
\* the queue has been closed for new submissions by shutdown
QueueClosed == orchState \in {"DRAINING", "STOPPED"}

\* ParallelTestOrchestrator.initialize: creates and initializes the pool;
\* the orchestrator is initialized when the pool is (a second call on an
\* initialized orchestrator is a no-op)
OrchInitialize ==
    /\ orchState = "CREATED"
    /\ PoolInitialize
    /\ orchState' = IF initialized' THEN "INITIALIZED" ELSE "CREATED"
    /\ UNCHANGED <<attempts, rejected>>

\* ParallelTestOrchestrator.start: rejected unless initialized and not yet
\* started; starts all workers
OrchStart ==
    /\ orchState = "INITIALIZED"
    /\ StartWorkers
    /\ orchState' = "RUNNING"
    /\ UNCHANGED <<attempts, rejected>>

\* a submit that enqueues whatever the state of the queue
OrchSubmitWhenClosed ==
    /\ orchState # "CREATED"
    /\ Enqueue
    /\ UNCHANGED <<attempts, lifeVars>>

\* ParallelTestOrchestrator.submit on the open queue: delegates to enqueue
OrchSubmit ==
    /\ orchState \in {"INITIALIZED", "RUNNING"}
    /\ Enqueue
    /\ UNCHANGED <<attempts, lifeVars>>

\* submit / enqueue after the queue has been closed: fails with QueueClosed
OrchSubmitRejected ==
    /\ QueueClosed
    /\ submitted + rejected < MaxRequests
    /\ rejected' = rejected + 1
    /\ UNCHANGED <<poolVars, queueVars, workerVars, orchVars, attempts, orchState>>

\* ParallelTestOrchestrator.shutdown, first step: the queue is closed for
\* new submissions.  The caller is not blocked in wait_for_completion.
OrchShutdown ==
    /\ orchState = "RUNNING"
    /\ waitPc # "waiting"
    /\ orchState' = "DRAINING"
    /\ UNCHANGED <<poolVars, queueVars, workerVars, orchVars, attempts, rejected>>

\* shutdown, after its bounded wait for the drain (the timeout may expire at
\* any moment): the workers are stopped concurrently
OrchStopWorker(w) ==
    /\ orchState = "DRAINING"
    /\ StopWorker(w)
    /\ UNCHANGED <<attempts, lifeVars>>

\* the workers have all been stopped and their tasks have ended
WorkersStopped == \A w \in Workers : ~wRunning[w] /\ pc[w] \in {"idle", "done"}

\* a shutdown that leaves the orchestrator initialized and startable again
OrchStoppedAsInitialized ==
    /\ orchState = "DRAINING"
    /\ WorkersStopped
    /\ \E cleanup_on_completion \in BOOLEAN :
          IF cleanup_on_completion /\ initialized
          THEN PoolCleanup
          ELSE UNCHANGED <<poolVars, queueVars, workerVars, orchVars>>
    /\ orchState' = "INITIALIZED"
    /\ UNCHANGED <<attempts, rejected>>

\* shutdown, last step: every stop() has returned; the pool is cleaned up
\* when the configuration asks for it; the orchestrator is stopped
OrchStopped ==
    /\ orchState = "DRAINING"
    /\ WorkersStopped
    /\ \E cleanup_on_completion \in BOOLEAN :
          IF cleanup_on_completion /\ initialized
          THEN PoolCleanup
          ELSE UNCHANGED <<poolVars, queueVars, workerVars, orchVars>>
    /\ orchState' = "STOPPED"
    /\ UNCHANGED <<attempts, rejected>>

\* the components driven through the orchestrator only
NextOrch ==
    \/ OrchInitialize
    \/ OrchStart
    \/ OrchSubmit
    \/ OrchSubmitRejected
    \/ WaitCall
    \/ WaitWake
    \/ OrchShutdown
    \/ \E w \in Workers : OrchStopWorker(w)
    \/ OrchStopped
    \/ \E w \in Workers : WorkerStep(w)

OrchSpec == InitStop /\ [][NextOrch]_vars

\* ---------------------------------------------------------------- claims
Terminal == completed \cup failed

\* workers inside WorktreePool.acquire (waiting for the lock, scanning, asleep)
InAcquire(w) == pc[w] \in {"acq_scan", "acq_sleep"}

\* a worker waits in the re-enqueue of requeue_for_retry for room in pending
PutBlocked == \E w \in Workers : pc[w] = "requeue_put"

\* number of times request r occurs in pending
PendingCount(r) == Cardinality({k \in 1..Len(pending) : pending[k] = r})

\* C1: no worktree is leased to two holders at once: between an acquire
\* that returned worktree i to a worker and that worker's release of i, no
\* other acquire returns i.
C1_ExclusiveLease ==
    \A w1, w2 \in Workers :
        (w1 # w2 /\ held[w1] # None) => held[w1] # held[w2]

\* C1 witness: a worker holds a worktree while another worker is inside
\* acquire and finds every worktree BUSY
C1_Witness ==
    \E w1, w2 \in Workers :
        /\ w1 # w2
        /\ held[w1] # None
        /\ pc[w2] = "acq_sleep"
        /\ FreeWorktrees = {}

\* C2: every worktree that is BUSY is eventually FREE or ERROR again (runs in
\* which a worker waits for room in a full pending queue are set aside).
C2_BusyEventuallyReleased ==
    \A i \in Worktrees :
        (wtStatus[i] = "busy") ~> (wtStatus[i] \in {"free", "error"} \/ PutBlocked)

\* C3: when cleaning never fails, every submitted request eventually reaches
\* completed or failed (runs in which a worker waits for room in a full
\* pending queue are set aside).
C3_AllRequestsTerminate ==
    \A r \in Requests :
        (r <= submitted)
            ~> (r \in Terminal \/ PutBlocked \/ \E i \in Worktrees : wtStatus[i] = "error")

\* C4: when an acquire waits because every worktree is BUSY and a holder has
\* called release, that release completes.
C4_ReleaseWakesWaiter ==
    \A w1, w2 \in Workers :
        (pc[w1] = "acq_sleep" /\ pc[w2] = "release") ~> (pc[w2] # "release")

\* C5: an acquire that found every worktree BUSY does not block forever: the
\* call ends (with a worktree, or with the timeout error).
C5_AcquireTerminates ==
    \A w \in Workers : (pc[w] = "acq_sleep") ~> ~InAcquire(w)

\* C6: completed + failed + running + pending = number of requests submitted,
\* in every reachable state.
C6_TotalsBalance ==
    Cardinality(completed) + Cardinality(failed) + Cardinality(running)
        + Len(pending) = submitted

\* C7: a request id is in at most one of pending, running, completed, failed.
C7_AtMostOneCollection ==
    \A r \in Requests :
        PendingCount(r)
          + (IF r \in running THEN 1 ELSE 0)
          + (IF r \in completed THEN 1 ELSE 0)
          + (IF r \in failed THEN 1 ELSE 0) <= 1

\* C7 witness: with two workers, a request that failed once is back in
\* pending for its retry while another request has reached a terminal map
C7_Witness ==
    /\ num_workers = 2
    /\ \E r \in Requests : retry_count[r] > 0 /\ PendingCount(r) = 1
    /\ Terminal # {}

\* C8: when wait_for_completion returns, every request submitted before the
\* call is in completed or failed (the report counts all of them).  The
\* caller submits nothing while it waits, so these are the requests 1..submitted.
C8_ReportCoversSubmitted ==
    [][(waitPc # "returned" /\ waitPc' = "returned")
          => \A r \in 1..submitted : r \in ReportIds']_vars

\* C9: a request whose result is in completed or failed no longer has its
\* worktree BUSY.
C9_ResultImpliesReleased ==
    \A w \in Workers :
        (cur[w] # None /\ cur[w] \in Terminal /\ held[w] # None)
            => wtStatus[held[w]] # "busy"

\* C10: single worker, no retries: if A is submitted before B (A < B), A's
\* mark_running happens before B's mark_running.
C10_FifoMarkRunning ==
    [][\A a, b \in Requests :
          (/\ num_workers = 1
           /\ a < b
           /\ retry_count[a] = 0 /\ retry_count[b] = 0
           /\ b \notin running /\ b \in running')
          => a \in running \cup Terminal]_vars

\* C10 witness: the single worker has marked B running after it finished A,
\* and nothing was retried
C10_Witness ==
    /\ num_workers = 1
    /\ \A r \in Requests : retry_count[r] = 0
    /\ \E a, b \in Requests : a < b /\ a \in Terminal /\ b \in running

\* C11: every request's retry_count starts at 0, never decreases and is at
\* most max_retries in every reachable state, wherever the request is.
C11_RetryCountBounded ==
    /\ \A r \in Requests : retry_count[r] = 0
    /\ [][\A r \in Requests :
             /\ retry_count'[r] >= retry_count[r]
             /\ retry_count'[r] <= max_retries']_vars

\* C11 witness: a request has used all its retries and is in failed
C11_Witness ==
    \E r \in Requests :
        r \in failed /\ max_retries > 0 /\ retry_count[r] = max_retries

\* C12: a request that ends in failed has been attempted exactly
\* max_retries + 1 times (one iteration of a worker per attempt) and has
\* retry_count = max_retries; failed holds it once (failed is keyed by id),
\* and no request is attempted more often than that.
C12_AttemptsBeforeFailed ==
    \A r \in Requests :
        /\ attempts[r] <= max_retries + 1
        /\ r \in failed =>
              attempts[r] = max_retries + 1 /\ retry_count[r] = max_retries

\* C12 witness: on a pool with worktrees in use, a request is in failed after
\* max_retries re-enqueues and max_retries + 1 attempts
C12_Witness ==
    \E r \in Requests :
        /\ r \in failed
        /\ max_retries > 0
        /\ attempts[r] = max_retries + 1
        /\ \E i \in Worktrees : wtStatus[i] \in {"free", "error"}

\* C13: requeue_for_retry takes its True branch exactly when retry_count + 1
\* <= max_retries: it adds one to retry_count, takes the request out of
\* running and puts it at the tail of pending (the put waits while pending is
\* full), and leaves completed and failed alone.  When the test is false it
\* changes nothing: the only change of that step is mark_failed's.
C13_RequeueEffect ==
    [][/\ \A r \in Requests :
             /\ retry_count'[r] # retry_count[r] =>
                   /\ retry_count[r] + 1 <= max_retries
                   /\ retry_count'[r] = retry_count[r] + 1
                   /\ r \notin running'
                   /\ \/ pending' = Append(pending, r)
                      \/ /\ Len(pending) = max_size
                         /\ pending' = pending
                         /\ \E w \in Workers : pc'[w] = "requeue_put" /\ cur'[w] = r
                   /\ completed' = completed
                   /\ failed' = failed
             /\ (r \notin failed /\ r \in failed') =>
                   /\ ~(retry_count[r] + 1 <= max_retries)
                   /\ retry_count' = retry_count
                   /\ pending' = pending
                   /\ completed' = completed
       /\ \A w \in Workers :
             (pc[w] = "requeue_put" /\ pc'[w] # "requeue_put" /\ wRunning'[w] = wRunning[w]) =>
                 pending' = Append(pending, cur[w])]_vars

\* C13 witness: a retried request sits at the tail of pending behind another
\* request
C13_Witness ==
    \E r \in Requests :
        retry_count[r] > 0 /\ Len(pending) = 2 /\ pending[2] = r

\* C14: when stop() is called on a worker that is busy with a request, the
\* iteration is finished first: at the moment the worker's task exits, the
\* request is no longer in running and the worktree is no longer BUSY.
C14_StopFinishesIteration ==
    [][\A w \in Workers :
          (pc[w] # "done" /\ pc'[w] = "done" /\ cur[w] # None)
              => /\ cur[w] \notin running'
                 /\ held[w] # None => wtStatus'[held[w]] # "busy"]_vars

\* C15: once stop() has returned for every worker, no worktree is BUSY.
C15_NoBusyAfterShutdown ==
    (\A w \in 1..num_workers : pc[w] = "done")
        => \A i \in Worktrees : wtStatus[i] # "busy"

\* C16: stop() always terminates: whenever stop() has been called on a
\* worker, the worker's task eventually exits (and stop() returns), with
\* running = false.  (A worker that waits for room in a full pending queue
\* is left out: that wait belongs to the queue.)
C16_StopTerminates ==
    \A w \in Workers :
        Stopped(w) ~> ((pc[w] = "done" /\ ~wRunning[w]) \/ PutBlocked)

C19_AcquireUninitializedFails ==
    [][\A w \in Workers :
          (pc[w] = "mark_running" /\ ~initialized /\ pc'[w] # "mark_running")
              => /\ pc'[w] \notin {"acq_scan", "acq_sleep", "execute"}
                 /\ held'[w] = None
                 /\ wtStatus' = wtStatus /\ wtTest' = wtTest
                 /\ lockOwner' = lockOwner /\ lockWaiters' = lockWaiters
                 /\ initialized' = initialized
                 /\ \/ retry_count'[cur[w]] = retry_count[cur[w]] + 1
                    \/ cur[w] \in failed']_vars

\* C19 witness: the pool was in use (a request is completed) and has been
\* removed by cleanup; a later request has used up its attempts and is in
\* failed, and the worker is back at the top of its loop
C19_Witness ==
    \E w \in Workers, r \in Requests :
        /\ ~initialized /\ \A i \in Worktrees : wtStatus[i] = "absent"
        /\ completed # {}
        /\ r \in failed /\ attempts[r] = max_retries + 1
        /\ wRunning[w] /\ pc[w] = "dequeue"

\* C20: release called on a pool that is not initialized fails at once and
\* changes no state: the caller does not queue for the pool lock, and the
\* table, the lock and the initialized flag are unchanged.
C20_ReleaseUninitializedFails ==
    [][\A w \in Workers :
          (/\ ~initialized /\ held[w] # None
           /\ pc[w] \in {"execute", "requeue_put"}
           /\ pc'[w] \notin {"execute", "requeue_put"})
              => /\ pc'[w] # "release"
                 /\ poolVars' = poolVars]_vars

\* C18: once a worktree is in ERROR after a failing release while another
\* worktree is in service, the pool stays usable: every request that is
\* pending at that moment is eventually processed to completed or failed
\* (unless every worktree ends up in ERROR, or a worker waits for room in a
\* full pending queue).
C18_DegradedPoolStillServes ==
    \A r \in Requests :
        (/\ initialized
         /\ \E i \in Worktrees : wtStatus[i] = "error"
         /\ \E j \in Worktrees : wtStatus[j] \in {"free", "busy"}
         /\ PendingCount(r) > 0)
            ~> (\/ r \in Terminal
                \/ \A i \in 1..pool_size : wtStatus[i] = "error"
                \/ PutBlocked)

C23_NoLockWhileCleaning ==
    [][\A w \in Workers :
          (/\ held[w] \in Worktrees /\ held'[w] = None
           /\ wtStatus'[held[w]] # wtStatus[held[w]])
              => lockOwner # w]_vars

\* C24: pending never holds more than max_size requests, and no submitted
\* request is dropped: a request that found the queue full waits and is
\* enqueued later, so every submitted request is in pending, in running, in
\* completed, in failed or in the hands of a worker.
C24_BoundedNoDrop ==
    /\ Len(pending) <= max_size
    /\ \A r \in 1..submitted :
          \/ PendingCount(r) > 0
          \/ r \in running \cup completed \cup failed
          \/ \E w \in Workers : cur[w] = r

\* C27: the status of the report that wait_for_completion returns (with at
\* least one result in it) is COMPLETE exactly when every submitted request
\* passed, PARTIAL_SUCCESS exactly when some but not all of them failed, and
\* FAILED only when all of them failed.
C27_ReportStatusMatchesRequests ==
    [][(waitPc # "returned" /\ waitPc' = "returned" /\ ReportIds' # {})
          => /\ ReportStatus' = "COMPLETE"
                   <=> \A r \in 1..submitted : r \in completed'
             /\ ReportStatus' = "PARTIAL_SUCCESS"
                   <=> /\ \E r \in 1..submitted : r \in failed'
                       /\ \E r \in 1..submitted : r \notin failed'
             /\ ReportStatus' = "FAILED"
                   => \A r \in 1..submitted : r \in failed']_vars

\* C28: initialize(); cleanup(); initialize() gives a usable pool of the same
\* capacity: whenever initialize completes, also after a cleanup, the table
\* holds exactly the worktrees 1..pool_size, all FREE and without tag, and
\* the pool is initialized, so that pool_size acquires find a worktree.
C28_ReinitializedPoolIsWhole ==
    [][(~initialized /\ initialized')
          => /\ \A i \in 1..pool_size :
                   wtStatus'[i] = "free" /\ wtTest'[i] = None
             /\ \A i \in Worktrees \ (1..pool_size) : wtStatus'[i] = "absent"
             /\ Cardinality({i \in Worktrees : wtStatus'[i] = "free"}) = pool_size]_vars

\* C28 witness: a pool of two worktrees is whole again after a cleanup that
\* took place while a worker had a lease (the lease of the worker is stale)
C28_Witness ==
    /\ initialized /\ pool_size = 2
    /\ \A i \in 1..pool_size : wtStatus[i] = "free"
    /\ \E w \in Workers : held[w] = Stale

\* C29: release of a worktree whose id is not in the table (here: the table
\* has been emptied by cleanup() while the worktree was leased) is a no-op:
\* no entry is added or changed, and the pool stays as it is.
C29_ReleaseUnknownIsNoOp ==
    [][\A w \in Workers :
          (/\ held[w] = Stale /\ held'[w] = None
           /\ \A i \in Worktrees : wtStatus[i] = "absent")
              => /\ wtStatus' = wtStatus /\ wtTest' = wtTest
                 /\ initialized' = initialized
                 /\ pool_size' = pool_size]_vars

\* C29 witness: a worker is inside release (it waits for the lock) with a
\* worktree that cleanup() has removed, and the table is empty
C29_Witness ==
    \E w \in Workers :
        /\ held[w] = Stale /\ pc[w] = "release"
        /\ \A i \in Worktrees : wtStatus[i] = "absent"

\* C30: a task blocked in wait_until_empty is woken and returns once pending
\* and running are both empty after the last terminal transition: when every
\* submitted request is completed or failed and the queue is drained, the
\* waiter eventually returns (no wake-up is lost).
C30_WaiterWoken ==
    (/\ waitPc = "waiting"
     /\ QIsEmpty
     /\ \A r \in 1..submitted : r \in Terminal) ~> (waitPc = "returned")

\* C30 witness: the waiter is blocked, the last terminal transition has
\* drained the queue and its notify is pending, after a retry
C30_Witness ==
    /\ waitPc = "waiting" /\ notified
    /\ QIsEmpty
    /\ submitted = MaxRequests
    /\ \A r \in 1..submitted : r \in Terminal
    /\ \E r \in 1..submitted : retry_count[r] > 0

\* C25: after shutdown has closed the queue, an enqueue / submit fails with
\* QueueClosed and adds nothing to pending: while the queue is closed no
\* request is submitted, and pending grows only by a worker's requeue of
\* the request it is running.
C25_ClosedQueueRejects ==
    [][QueueClosed =>
          /\ submitted' = submitted
          /\ rejected' # rejected => pending' = pending
          /\ Len(pending') > Len(pending) =>
                \E w \in Workers : /\ cur[w] # None
                                    /\ pending' = Append(pending, cur[w])]_vars

\* C25 witness: a submit has been rejected on the closed queue while a
\* request is still pending and the workers run
C25_Witness ==
    /\ QueueClosed /\ rejected > 0
    /\ pending # <<>>
    /\ \E w \in Workers : wRunning[w]

\* position of a lifecycle state in CREATED, INITIALIZED, RUNNING,
\* DRAINING, STOPPED
LifecycleRank(s) ==
    CASE s = "CREATED" -> 0
      [] s = "INITIALIZED" -> 1
      [] s = "RUNNING" -> 2
      [] s = "DRAINING" -> 3
      [] s = "STOPPED" -> 4

\* C26: the lifecycle state of the orchestrator only advances along
\* CREATED, INITIALIZED, RUNNING, DRAINING, STOPPED, one state at a time,
\* and a stopped instance is not restarted: no worker runs again.
C26_LifecycleOneWay ==
    [][/\ LifecycleRank(orchState') \in {LifecycleRank(orchState), LifecycleRank(orchState) + 1}
       /\ orchState = "STOPPED" =>
             /\ orchState' = "STOPPED"
             /\ \A w \in Workers : ~wRunning'[w]]_vars

\* C26 witness: a stopped orchestrator that has run a request, rejected a
\* submit and cleaned up its pool
C26_Witness ==
    /\ orchState = "STOPPED"
    /\ completed # {}
    /\ rejected > 0
    /\ ~initialized

\* C31: when pool.acquire fails inside an iteration (the pool is not
\* initialized), the request does not stay in running: it is re-enqueued at
\* the tail of pending when a retry is left (or its put waits for room),
\* else it is placed in failed; no release is attempted, since no worktree
\* was acquired: the worker does not queue for the pool lock and no
\* worktree changes.
C31_AcquireFailureHandled ==
    [][\A w \in Workers :
          (pc[w] = "mark_running" /\ ~initialized /\ pc'[w] # "mark_running")
              => /\ cur[w] \notin running'
                 /\ IF QCanRetry(cur[w])
                    THEN /\ retry_count'[cur[w]] = retry_count[cur[w]] + 1
                         /\ cur[w] \notin failed'
                         /\ \/ pending' = Append(pending, cur[w])
                            \/ pc'[w] = "requeue_put" /\ pending' = pending
                    ELSE /\ cur[w] \in failed'
                         /\ pending' = pending
                 /\ held'[w] = None /\ pc'[w] # "release"
                 /\ lockOwner' = lockOwner /\ lockWaiters' = lockWaiters
                 /\ wtStatus' = wtStatus /\ wtTest' = wtTest]_vars

\* C31 witness: acquire has failed on the removed pool while another task
\* keeps the pool lock; the request of the worker has left running with a
\* retry counted and waits for room in pending, and the worker holds no
\* worktree
C31_Witness ==
    \E w \in Workers :
        /\ ~initialized /\ lockOwner \notin {None, w}
        /\ pc[w] = "requeue_put" /\ held[w] = None
        /\ retry_count[cur[w]] > 0
        /\ cur[w] \notin running /\ cur[w] \notin failed

\* C32: requests are dequeued in FIFO order of their most recent enqueue:
\* pending changes only by a dequeue that takes its head or by an enqueue
\* (submission or retry) that appends at its tail, so every request that is
\* pending when a retried request is re-enqueued stays ahead of it.
C32_FifoOfLastEnqueue ==
    [][pending' # pending =>
          \/ /\ pending # <<>>
             /\ pending' = Tail(pending)
             /\ \E w \in Workers : pc[w] = "dequeue" /\ cur'[w] = Head(pending)
          \/ \E r \in Requests :
                /\ pending' = Append(pending, r)
                /\ \A k \in 1..Len(pending) : pending'[k] = pending[k]]_vars

\* C32 witness: a request that has never run is dequeued while a retried
\* request is pending behind it
C32_Witness ==
    \E w \in Workers, r \in Requests :
        /\ pc[w] = "mark_running" /\ cur[w] # r /\ attempts[cur[w]] = 0
        /\ retry_count[r] > 0 /\ pending = <<r>>

\* C33: when the creation of worktree i fails during initialize, the
\* worktrees 1 .. i-1 created so far are in the table as FREE, the others
\* are as before, and the pool is marked initialized only when all
\* pool_size worktrees were created; on the partly created pool acquire
\* keeps failing: the caller gets no worktree and no worktree changes.
C33_PartialInitialize ==
    [][/\ (/\ ~initialized
           /\ \E i \in Worktrees :
                 wtStatus[i] = "absent" /\ wtStatus'[i] # "absent")
              => \E k \in 1..pool_size :
                    /\ \A i \in 1..k : wtStatus'[i] = "free" /\ wtTest'[i] = None
                    /\ \A i \in Worktrees \ (1..k) : wtStatus'[i] = wtStatus[i]
                    /\ initialized' <=> (k = pool_size)
       /\ \A w \in Workers :
             (/\ pc[w] = "mark_running" /\ pc'[w] # "mark_running"
              /\ ~initialized
              /\ \E i \in Worktrees : wtStatus[i] = "free")
                 => /\ held'[w] = None
                    /\ pc'[w] \notin {"acq_scan", "acq_sleep", "execute"}
                    /\ wtStatus' = wtStatus /\ wtTest' = wtTest
                    /\ ~initialized']_vars

\* C33 witness: of a pool of two worktrees only the first has been created;
\* the pool is not initialized and a request has failed on acquire, the
\* created worktree staying FREE
C33_Witness ==
    /\ pool_size = 2 /\ ~initialized
    /\ wtStatus[1] = "free" /\ wtStatus[2] = "absent"
    /\ completed = {} /\ failed # {}
    /\ \A w \in Workers : held[w] = None

\* position of task t in the FIFO of the pool lock, 0 when it is not there
LockPosition(t) ==
    IF \E k \in 1..Len(lockWaiters) : lockWaiters[k] = t
    THEN CHOOSE k \in 1..Len(lockWaiters) : lockWaiters[k] = t
    ELSE 0

\* acquire call of worker a started to wait before that of worker b: a has
\* the lock and b waits for it, or both wait and a is nearer to the head
WaitsAhead(a, b) ==
    /\ a # b /\ InAcquire(a) /\ InAcquire(b)
    /\ LockPosition(b) > 0
    /\ \/ lockOwner = a
       \/ LockPosition(a) > 0 /\ LockPosition(a) < LockPosition(b)

\* C34: the waiters of acquire are served in FIFO order: while the acquire
\* of A waits ahead of the acquire of B, B obtains no worktree, and B never
\* overtakes A as long as both wait; a call obtains a worktree only as the
\* owner of the lock or when nobody holds or waits for it.
C34_AcquireWaitersFifo ==
    [][/\ \A a, b \in Workers :
             WaitsAhead(a, b) =>
                 /\ held'[b] = held[b]
                 /\ (InAcquire(a)' /\ InAcquire(b)') => WaitsAhead(a, b)'
       /\ \A w \in Workers :
             (held[w] = None /\ held'[w] \in Worktrees) =>
                 /\ lockOwner \in {None, w}
                 /\ lockOwner = None => lockWaiters = <<>>]_vars

\* C34 witness: every worktree is BUSY; the acquire of A sleeps with the lock
\* and the acquire of B waits behind it
C34_Witness ==
    \E a, b \in Workers :
        /\ WaitsAhead(a, b) /\ pc[a] = "acq_sleep" /\ lockOwner = a
        /\ \A i \in 1..pool_size : wtStatus[i] = "busy"

\* C35: while a worktree is BUSY for the iteration of a worker, its
\* current-test tag is the id of the request the worker executes in it.
C35_TagIsRequestId ==
    \A w \in Workers :
        (held[w] \in Worktrees /\ wtStatus[held[w]] = "busy")
            => wtTest[held[w]] = cur[w]

\* C36: a worker holds at most one worktree at a time: it holds one only
\* between the acquire of an iteration and the release call of that
\* iteration (it is executing, waiting in the put of a retry, or inside
\* release), it enters acquire only with no worktree, and a worktree
\* leaves BUSY only by the release of the worker that acquired it.
C36_OneWorktreePerWorker ==
    /\ \A w \in Workers : held[w] = None
    /\ [][/\ \A w \in Workers :
               /\ held'[w] # None => pc'[w] \in {"execute", "requeue_put", "release"}
               /\ (held[w] # None /\ held'[w] # held[w]) => held'[w] \in {None, Stale}
               /\ (pc[w] = "release" /\ pc'[w] # "release") => held'[w] = None
          /\ \A i \in Worktrees :
               (wtStatus[i] = "busy" /\ wtStatus'[i] \in {"free", "error"}) =>
                   \E w \in Workers : held[w] = i /\ held'[w] = None]_vars

\* C36 witness: the only worker executes in a worktree for the second time,
\* the iteration of an earlier request having released it
C36_Witness ==
    \E w \in Workers :
        /\ num_workers = 1
        /\ held[w] \in Worktrees /\ pc[w] = "execute"
        /\ \E r \in Requests : r # cur[w] /\ r \in completed \cup failed

\* C37: acquire returns only a worktree that is FREE at the moment it is
\* marked BUSY; a worktree in ERROR is never returned by acquire and stays
\* in ERROR (nothing calls release on it again).
C37_OnlyFreeIsAcquired ==
    [][/\ \A w \in Workers :
             (held[w] = None /\ held'[w] \in Worktrees) =>
                 /\ wtStatus[held'[w]] = "free"
                 /\ wtStatus'[held'[w]] = "busy"
       /\ \A i \in Worktrees :
             /\ (wtStatus[i] # "busy" /\ wtStatus'[i] = "busy") =>
                   /\ wtStatus[i] = "free"
                   /\ \E w \in Workers : held[w] = None /\ held'[w] = i
             /\ wtStatus[i] = "error" => wtStatus'[i] = "error"]_vars

\* C37 witness: the scan of acquire has passed over the ERROR worktree that
\* comes first in the table and has returned the FREE one behind it
C37_Witness ==
    \E w \in Workers, i, j \in Worktrees :
        /\ i < j /\ wtStatus[i] = "error"
        /\ held[w] = j /\ pc[w] = "execute" /\ wtStatus[j] = "busy"
        /\ \E r \in Requests : r # cur[w] /\ r \in completed \cup failed

\* C38: cancelling a task that is blocked in acquire (stop() of a worker in
\* the lock wait or in the sleep of acquire) frees the pool lock and leaves
\* the state and tag of every worktree unchanged: after the step the task
\* neither has the lock nor waits for it, the lock has gone to the first
\* waiter if the task had it, the task holds no worktree, and no worktree
\* is BUSY without a holder that was not so before.
C38_CancelledAcquire ==
    [][\A w \in Workers :
          (InAcquire(w) /\ wRunning[w] /\ ~wRunning'[w]) =>
              /\ wtStatus' = wtStatus /\ wtTest' = wtTest
              /\ held'[w] = None
              /\ lockOwner' # w
              /\ \A k \in 1..Len(lockWaiters') : lockWaiters'[k] # w
              /\ lockOwner = w =>
                    IF lockWaiters = <<>>
                    THEN lockOwner' = None
                    ELSE lockOwner' = Head(lockWaiters)
              /\ \A i \in Worktrees :
                    (wtStatus'[i] = "busy" /\ \A v \in Workers : held'[v] # i)
                        => (wtStatus[i] = "busy" /\ \A v \in Workers : held[v] # i)]_vars

\* C38 witness: the acquire of a stopped worker was cancelled while it slept
\* with the lock; the lock has gone to the worker that waited for it in
\* release, and the worktree is still BUSY for that worker
C38_Witness ==
    \E w, v \in Workers :
        /\ w # v /\ pc[w] = "done" /\ held[w] = None
        /\ lockOwner = v /\ pc[v] = "release" /\ held[v] \in Worktrees
        /\ wtStatus[held[v]] = "busy"

\* C39: with a full pending queue a worker whose request fails and is
\* re-enqueued by requeue_for_retry does not block forever.  The put of the
\* retry can only end when a worker dequeues, so the claim fails in a finite
\* run as soon as every started worker waits in that put: this never
\* happens.
C39_RetryPutNotStuck ==
    ~(/\ \E w \in Workers : wRunning[w]
      /\ \A w \in Workers : wRunning[w] => pc[w] = "requeue_put")

\* C40: terminal states are absorbing: a request id that is in completed or
\* failed stays in the same one of the two, is never again in pending or in
\* running, and no further iteration of a worker is started for it.
C40_TerminalAbsorbing ==
    [][\A r \in Requests :
          r \in Terminal =>
              /\ (r \in completed) <=> (r \in completed')
              /\ (r \in failed) <=> (r \in failed')
              /\ r \notin running'
              /\ PendingCount(r)' = 0
              /\ attempts'[r] = attempts[r]
              /\ \A w \in Workers : cur'[w] = r => cur[w] = r]_vars

\* C40 witness: one request has completed and another has failed after its
\* retries, and a worker has gone on to a later iteration
C40_Witness ==
    \E r1, r2 \in Requests :
        /\ r1 \in completed
        /\ r2 \in failed
        /\ retry_count[r2] >= 1
        /\ attempts[r2] = retry_count[r2] + 1
        /\ \E w \in Workers : wRunning[w] /\ pc[w] = "dequeue" /\ cur[w] \notin {r1, r2}

====
